---- MODULE Spec2Model ----
(***************************************************************************)
(* Model of the netrc parser: the tokenizer Lex (src/src/lex.rs) and       *)
(* Netrc::from_str / Display (src/src/netrc.rs).                           *)
(*                                                                         *)
(* A string is a sequence of one-character strings, so that the tokenizer  *)
(* works character by character as the code does.                          *)
(***************************************************************************)
EXTENDS Integers, Sequences, FiniteSets, TLC

VARIABLES
    input,      \* the text given to from_str / Lex::new
    instream,   \* Lex.instream: the characters not yet consumed
    lineno,     \* Lex.lineno
    pushback,   \* Lex.pushback, oldest token first
    hosts,      \* Netrc.hosts (res.hosts while parsing)
    macros,     \* Netrc.macros (res.macros while parsing)
    pc,         \* position in from_str: "top", "macdef", "attr", "done"
    entryname,  \* from_str local entryname
    auth,       \* from_str local auth
    v,          \* from_str local v (lines of the macro being read)
    result,     \* what from_str returned, once pc = "done"
    rep,        \* <<text>> once Display has formatted the document, else <<>>
    call,       \* the last call made on a Lex by a direct caller
    request     \* <<>>, or <<r>> once NetrcMiddleware::init has handled a
                \* request: r.given is the request, r.returned the result

vars == <<input, instream, lineno, pushback, hosts, macros, pc, entryname,
          auth, v, result, rep, call, request>>

-----------------------------------------------------------------------------
(* Characters and literals of the source.                                  *)

NL == "\n"
TAB == "\t"
CR == "\r"
SP == " "
QUOTE == "\""
BSLASH == "\\"
HASH == "#"

\* lex.rs:47 and lex.rs:74: the characters that separate tokens
Whitespace == {NL, TAB, CR, SP}

kMachine == <<"m", "a", "c", "h", "i", "n", "e">>
kDefault == <<"d", "e", "f", "a", "u", "l", "t">>
kMacdef == <<"m", "a", "c", "d", "e", "f">>
kLogin == <<"l", "o", "g", "i", "n">>
kUser == <<"u", "s", "e", "r">>
kAccount == <<"a", "c", "c", "o", "u", "n", "t">>
kPassword == <<"p", "a", "s", "s", "w", "o", "r", "d">>

RECURSIVE Cat(_)
\* concatenation of a sequence of strings
Cat(ss) == IF ss = <<>> THEN <<>> ELSE Head(ss) \o Cat(Tail(ss))

-----------------------------------------------------------------------------
(* Lex (src/src/lex.rs).  A Lex value is a record                          *)
(* [instream, lineno, pushback].                                           *)

LexNew(content) == [instream |-> content, lineno |-> 1, pushback |-> <<>>]

\* Option<char>: <<>> is None, <<c>> is Some(c)
read_char(lex) ==
    IF lex.instream = <<>>
    THEN [ch |-> <<>>, lex |-> lex]
    ELSE [ch |-> <<Head(lex.instream)>>,
          lex |-> [lex EXCEPT !.instream = Tail(@),
                              !.lineno = IF Head(lex.instream) = NL
                                         THEN @ + 1 ELSE @]]

RECURSIVE ReadLineFrom(_, _)
\* the for loop of read_line: iterates instream itself, not read_char
ReadLineFrom(chars, s) ==
    IF chars = <<>> THEN [line |-> s, rest |-> <<>>]
    ELSE IF Head(chars) = NL THEN [line |-> s, rest |-> Tail(chars)]
    ELSE ReadLineFrom(Tail(chars), Append(s, Head(chars)))

read_line(lex) ==
    LET r == ReadLineFrom(lex.instream, <<>>)
    IN  [line |-> r.line, lex |-> [lex EXCEPT !.instream = r.rest]]

\* self.read_char().unwrap_or(' ')
EscapedChar(r) == IF r.ch = <<>> THEN SP ELSE r.ch[1]

RECURSIVE ScanQuotedKeepsQuote(_, _)
\* mutant of ScanQuoted: the closing quote is kept in the token
ScanQuotedKeepsQuote(lex, token) ==
    LET r == read_char(lex) IN
    IF r.ch = <<>> THEN [tok |-> token, lex |-> r.lex]
    ELSE IF r.ch[1] = QUOTE THEN [tok |-> Append(token, QUOTE), lex |-> r.lex]
    ELSE IF r.ch[1] = BSLASH
         THEN LET e == read_char(r.lex)
              IN  ScanQuotedKeepsQuote(e.lex, Append(token, EscapedChar(e)))
         ELSE ScanQuotedKeepsQuote(r.lex, Append(token, r.ch[1]))

RECURSIVE ScanQuotedStopsAtBlank(_, _)
\* mutant of ScanQuoted: a blank ends the quoted token as a quote does
ScanQuotedStopsAtBlank(lex, token) ==
    LET r == read_char(lex) IN
    IF r.ch = <<>> THEN [tok |-> token, lex |-> r.lex]
    ELSE IF r.ch[1] \in {QUOTE, SP, NL} THEN [tok |-> token, lex |-> r.lex]
    ELSE IF r.ch[1] = BSLASH
         THEN LET e == read_char(r.lex)
              IN  ScanQuotedStopsAtBlank(e.lex, Append(token, EscapedChar(e)))
         ELSE ScanQuotedStopsAtBlank(r.lex, Append(token, r.ch[1]))

RECURSIVE ScanQuoted(_, _)
\* the inner loop of the '"' arm (lex.rs:51-63); when the input ends the
\* outer loop reads None as well and the token is returned (lex.rs:85)
ScanQuoted(lex, token) ==
    LET r == read_char(lex) IN
    IF r.ch = <<>> THEN [tok |-> token, lex |-> r.lex]
    ELSE IF r.ch[1] = QUOTE THEN [tok |-> token, lex |-> r.lex]
    ELSE IF r.ch[1] = BSLASH
         THEN LET e == read_char(r.lex)
              IN  ScanQuoted(e.lex, Append(token, EscapedChar(e)))
         ELSE ScanQuoted(r.lex, Append(token, r.ch[1]))

RECURSIVE ScanPlainKeepsBlank(_, _)
\* mutant of ScanPlain: the whitespace character that ends the token is
\* kept in it
ScanPlainKeepsBlank(lex, token) ==
    LET r == read_char(lex) IN
    IF r.ch = <<>> THEN [tok |-> token, lex |-> r.lex]
    ELSE IF r.ch[1] \in Whitespace
         THEN [tok |-> Append(token, r.ch[1]), lex |-> r.lex]
    ELSE IF r.ch[1] = BSLASH
         THEN LET e == read_char(r.lex)
              IN  ScanPlainKeepsBlank(e.lex, Append(token, EscapedChar(e)))
         ELSE ScanPlainKeepsBlank(r.lex, Append(token, r.ch[1]))

RECURSIVE ScanPlainNoEscape(_, _)
\* mutant of ScanPlain: a backslash inside an unquoted token is an
\* ordinary character
ScanPlainNoEscape(lex, token) ==
    LET r == read_char(lex) IN
    IF r.ch = <<>> THEN [tok |-> token, lex |-> r.lex]
    ELSE IF r.ch[1] \in Whitespace THEN [tok |-> token, lex |-> r.lex]
    ELSE ScanPlainNoEscape(r.lex, Append(token, r.ch[1]))

RECURSIVE ScanPlain(_, _)
\* the inner loop of the default arm (lex.rs:72-81)
ScanPlain(lex, token) ==
    LET r == read_char(lex) IN
    IF r.ch = <<>> THEN [tok |-> token, lex |-> r.lex]
    ELSE IF r.ch[1] \in Whitespace THEN [tok |-> token, lex |-> r.lex]
    ELSE IF r.ch[1] = BSLASH
         THEN LET e == read_char(r.lex)
              IN  ScanPlain(e.lex, Append(token, EscapedChar(e)))
         ELSE ScanPlain(r.lex, Append(token, r.ch[1]))

RECURSIVE Scan(_)
\* the outer loop of get_token (lex.rs:45-85), token still empty
Scan(lex) ==
    LET r == read_char(lex) IN
    IF r.ch = <<>> THEN [tok |-> <<>>, lex |-> r.lex]
    ELSE IF r.ch[1] \in Whitespace THEN Scan(r.lex)
    ELSE IF r.ch[1] = QUOTE THEN ScanQuoted(r.lex, <<>>)
    ELSE IF r.ch[1] = BSLASH
         THEN LET e == read_char(r.lex)
              IN  ScanPlain(e.lex, <<EscapedChar(e)>>)
         ELSE ScanPlain(r.lex, <<r.ch[1]>>)

\* mutant of get_token: the newest queued token is returned first
get_tokenNewest(lex) ==
    IF lex.pushback # <<>>
    THEN [tok |-> lex.pushback[Len(lex.pushback)],
          lex |-> [lex EXCEPT !.pushback = SubSeq(@, 1, Len(@) - 1)]]
    ELSE Scan(lex)

get_token(lex) ==
    IF lex.pushback # <<>>
    THEN [tok |-> Head(lex.pushback),
          lex |-> [lex EXCEPT !.pushback = Tail(@)]]
    ELSE Scan(lex)

\* mutant of push_token: the token is queued twice
push_tokenTwice(lex, token) ==
    [lex EXCEPT !.pushback = Append(Append(@, token), token)]

\* mutant of push_token: the token is not queued
push_tokenLost(lex, token) == lex

push_token(lex, token) == [lex EXCEPT !.pushback = Append(@, token)]

-----------------------------------------------------------------------------
(* str::trim as used on macro lines (netrc.rs:109, 112).  It removes the   *)
(* characters of the Unicode property White_Space (char::is_whitespace),   *)
(* which are more than the four separators of get_token.                   *)

VT == ""
FF == "\f"
NEL == ""
NBSP == " "
OGHAM == " "

\* char::is_whitespace: U+0009..U+000D, U+0020, U+0085, U+00A0, U+1680.
\* The other characters of the property (U+2000..U+200A, U+2028, U+2029,
\* U+202F, U+205F, U+3000) cannot be written in a string of this module,
\* so that no text of the model holds them.
White_Space == {TAB, NL, VT, FF, CR, SP, NEL, NBSP, OGHAM}

RECURSIVE TrimStart(_)
\* str::trim_start
TrimStart(s) ==
    IF s # <<>> /\ Head(s) \in White_Space THEN TrimStart(Tail(s)) ELSE s

RECURSIVE TrimEnd(_)
\* str::trim_end
TrimEnd(s) ==
    IF s # <<>> /\ s[Len(s)] \in White_Space
    THEN TrimEnd(SubSeq(s, 1, Len(s) - 1)) ELSE s

trim(s) == TrimEnd(TrimStart(s))

-----------------------------------------------------------------------------
(* Netrc::from_str (netrc.rs:75-168) as steps over a state record.         *)

\* Authenticator::default()
AuthDefault == [login |-> <<>>, account |-> <<>>, password |-> <<>>]

\* HashMap::insert
MapInsert(m, k, x) ==
    [n \in (DOMAIN m) \cup {k} |-> IF n = k THEN x ELSE m[n]]

EmptyMap == [n \in {} |-> <<>>]

NoResult == [kind |-> "none", lineno |-> 0, message |-> <<>>]
OkResult == [kind |-> "Ok", lineno |-> 0, message |-> <<>>]

\* mutant of BadToplevelMsg: the token is not quoted in the message
BadToplevelMsgBare(tt) ==
    <<"b", "a", "d", " ", "t", "o", "p", "l", "e", "v", "e", "l", " ",
      "t", "o", "k", "e", "n", " ">> \o tt

BadToplevelMsg(tt) ==
    <<"b", "a", "d", " ", "t", "o", "p", "l", "e", "v", "e", "l", " ",
      "t", "o", "k", "e", "n", " ", "'">> \o tt \o <<"'">>

BadFollowerMsg(tt) ==
    <<"b", "a", "d", " ", "f", "o", "l", "l", "o", "w", "e", "r", " ",
      "t", "o", "k", "e", "n", " ", "'">> \o tt \o <<"'">>

MissingNameMsg(tt) ==
    <<"m", "i", "s", "s", "i", "n", "g", " ", "'">> \o tt
        \o <<"'", " ", "n", "a", "m", "e">>

\* the state of from_str right after `let mut lexer = Lex::new(s)`
Start(s) ==
    [input |-> s, instream |-> s, lineno |-> 1, pushback |-> <<>>,
     hosts |-> EmptyMap, macros |-> EmptyMap, pc |-> "top",
     entryname |-> <<>>, auth |-> AuthDefault, v |-> <<>>,
     result |-> NoResult]

LexOf(s) ==
    [instream |-> s.instream, lineno |-> s.lineno, pushback |-> s.pushback]

WithLex(s, lex) ==
    [s EXCEPT !.instream = lex.instream, !.lineno = lex.lineno,
              !.pushback = lex.pushback]

\* mutant of Fail: the loop is left as at the end of the input and the
\* document collected so far is returned
FailReturnsDocument(s, msg) ==
    [s EXCEPT !.pc = "done", !.result = OkResult]

\* return Err(ParsingError { lineno: lexer.lineno, message })
Fail(s, msg) ==
    [s EXCEPT !.pc = "done",
              !.result = [kind |-> "Err", lineno |-> s.lineno,
                          message |-> msg]]

\* mutant of EnterEntry: the name is not checked
EnterEntryAnyName(s, tt, name) ==
    [s EXCEPT !.pc = "attr", !.entryname = name, !.auth = AuthDefault]

\* mutant of EnterEntry: a name already in hosts starts from its entry
EnterEntryKeepsFields(s, tt, name) ==
    IF name = <<>>
    THEN Fail(s, MissingNameMsg(tt))
    ELSE [s EXCEPT !.pc = "attr", !.entryname = name,
                   !.auth = IF name \in DOMAIN s.hosts
                            THEN s.hosts[name] ELSE AuthDefault]

\* netrc.rs:124-131: the check of entryname and the fresh Authenticator
EnterEntry(s, tt, name) ==
    IF name = <<>>
    THEN Fail(s, MissingNameMsg(tt))
    ELSE [s EXCEPT !.pc = "attr", !.entryname = name, !.auth = AuthDefault]

\* mutant of TopSkipsLine: the length of the token is not looked at
TopSkipsLineAnyLength(lex, saved_lineno, tt) == lex.lineno = saved_lineno

\* netrc.rs:86: the outer loop discards the rest of the line after a lone
\* '#' when no newline was read with it
TopSkipsLine(lex, saved_lineno, tt) ==
    lex.lineno = saved_lineno /\ Len(tt) = 1

\* one iteration of the outer loop, up to the macro loop or the attribute
\* loop (netrc.rs:79-131)
Top(s) ==
    LET saved_lineno == s.lineno
        g == get_token(LexOf(s))
        tt == g.tok
        s1 == WithLex(s, g.lex)
    IN  IF tt = <<>>
        THEN [s1 EXCEPT !.pc = "done", !.result = OkResult]
        ELSE IF Head(tt) = HASH
        THEN IF TopSkipsLine(g.lex, saved_lineno, tt)
             THEN WithLex(s1, read_line(g.lex).lex)
             ELSE s1
        ELSE IF tt = kMachine
        THEN LET n == get_token(g.lex)
             IN  EnterEntry(WithLex(s1, n.lex), tt, n.tok)
        ELSE IF tt = kDefault
        THEN EnterEntry(s1, tt, kDefault)
        ELSE IF tt = kMacdef
        THEN LET n == get_token(g.lex)
             IN  [WithLex(s1, n.lex) EXCEPT !.pc = "macdef",
                                            !.entryname = n.tok,
                                            !.v = <<>>]
        ELSE Fail(s1, BadToplevelMsg(tt))

\* mutant of Macro: the lines are stored as read, not trimmed
MacroNoTrim(s) ==
    LET r == read_line(LexOf(s))
        s1 == WithLex(s, r.lex)
    IN  IF trim(r.line) = <<>>
        THEN [s1 EXCEPT !.macros = MapInsert(@, s.entryname, s.v),
                        !.pc = "top"]
        ELSE [s1 EXCEPT !.v = Append(@, r.line)]

\* one iteration of the macro line loop and, at its end, the insert
\* (netrc.rs:107-115)
Macro(s) ==
    LET r == read_line(LexOf(s))
        s1 == WithLex(s, r.lex)
    IN  IF trim(r.line) = <<>>
        THEN [s1 EXCEPT !.macros = MapInsert(@, s.entryname, s.v),
                        !.pc = "top"]
        ELSE [s1 EXCEPT !.v = Append(@, trim(r.line))]

\* netrc.rs:143: the tokens that end the current entry
EndsEntry(tt) == tt \in {<<>>, kMachine, kDefault, kMacdef}

\* mutant of LoginKeywords: 'user' is not known
LoginKeywordsNoUser == {kLogin}

\* netrc.rs:148: the keywords that assign the login
LoginKeywords == {kLogin, kUser}

\* netrc.rs:137: the attribute loop discards the rest of the line after a
\* token that starts with '#' when no newline was read with it
AttrSkipsLine(lex, prev_lineno, tt) == lex.lineno = prev_lineno

\* mutant of AttrValue: a value that starts with '#' is taken as a comment
AttrValueComment(lex) ==
    LET g == get_token(lex)
    IN  IF g.tok # <<>> /\ Head(g.tok) = HASH
        THEN [tok |-> <<>>, lex |-> read_line(g.lex).lex]
        ELSE g

\* netrc.rs:149, 152, 155: the value of an attribute is the next token
AttrValue(lex) == get_token(lex)

\* mutant of Assign: the account arm builds a fresh Authenticator
AssignFresh(a, tt, value) ==
    IF tt \in {kLogin, kUser} THEN [a EXCEPT !.login = value]
    ELSE IF tt = kAccount
         THEN [login |-> <<>>, account |-> value, password |-> <<>>]
    ELSE [a EXCEPT !.password = value]

\* netrc.rs:148-156: the assignment made for attribute keyword tt
Assign(a, tt, value) ==
    IF tt \in LoginKeywords THEN [a EXCEPT !.login = value]
    ELSE IF tt = kAccount THEN [a EXCEPT !.account = value]
    ELSE [a EXCEPT !.password = value]

\* mutant of Attr: the arm that ends the entry does not leave the loop
AttrNoBreak(s) ==
    LET prev_lineno == s.lineno
        g == get_token(LexOf(s))
        tt == g.tok
        s1 == WithLex(s, g.lex)
        val == AttrValue(g.lex)
    IN  IF tt # <<>> /\ Head(tt) = HASH
        THEN IF AttrSkipsLine(g.lex, prev_lineno, tt)
             THEN WithLex(s1, read_line(g.lex).lex)
             ELSE s1
        ELSE IF EndsEntry(tt)
        THEN [WithLex(s1, push_token(g.lex, tt))
                 EXCEPT !.hosts = MapInsert(@, s.entryname, s.auth)]
        ELSE IF tt \in LoginKeywords \cup {kAccount, kPassword}
        THEN [WithLex(s, val.lex) EXCEPT !.auth = Assign(@, tt, val.tok)]
        ELSE Fail(s1, BadFollowerMsg(tt))

\* one iteration of the attribute loop (netrc.rs:133-164)
Attr(s) ==
    LET prev_lineno == s.lineno
        g == get_token(LexOf(s))
        tt == g.tok
        s1 == WithLex(s, g.lex)
        val == AttrValue(g.lex)
    IN  IF tt # <<>> /\ Head(tt) = HASH
        THEN IF AttrSkipsLine(g.lex, prev_lineno, tt)
             THEN WithLex(s1, read_line(g.lex).lex)
             ELSE s1
        ELSE IF EndsEntry(tt)
        THEN [WithLex(s1, push_token(g.lex, tt))
                 EXCEPT !.hosts = MapInsert(@, s.entryname, s.auth),
                        !.pc = "top"]
        ELSE IF tt \in LoginKeywords \cup {kAccount, kPassword}
        THEN [WithLex(s, val.lex) EXCEPT !.auth = Assign(@, tt, val.tok)]
        ELSE Fail(s1, BadFollowerMsg(tt))

Step(s) ==
    CASE s.pc = "top" -> Top(s)
      [] s.pc = "macdef" -> Macro(s)
      [] s.pc = "attr" -> Attr(s)
      [] OTHER -> s

RECURSIVE Run(_)
Run(s) == IF s.pc = "done" THEN s ELSE Run(Step(s))

\* the value from_str returns to its caller from final state s: Ok(res)
\* carries the document, Err(ParsingError) the line and the message only
Returned(s) ==
    IF s.result.kind = "Ok"
    THEN [kind |-> "Ok", hosts |-> s.hosts, macros |-> s.macros]
    ELSE [kind |-> "Err", lineno |-> s.result.lineno,
          message |-> s.result.message]

\* Netrc::from_str(text): the final state; .result.kind is "Ok" or "Err",
\* and with "Ok" .hosts and .macros are the document
from_str(text) == Run(Start(text))

-----------------------------------------------------------------------------
(* impl Display for Netrc (netrc.rs:52-70).  HashMap::iter yields the      *)
(* entries in an arbitrary order: Display takes the order as a parameter   *)
(* and the action below chooses it.                                        *)

\* the orders in which the keys of map m can be iterated
Orders(m) ==
    {f \in [1..Cardinality(DOMAIN m) -> DOMAIN m] :
        \A i, j \in DOMAIN f : f[i] = f[j] => i = j}

\* format!("machine {}\n\tlogin {}\n", ..), "\taccount  {}\n" when the
\* account is not empty, "\tpassword  {}\n"
FmtHost(host, attrs) ==
    kMachine \o <<SP>> \o host \o <<NL, TAB>> \o kLogin \o <<SP>>
        \o attrs.login \o <<NL>>
        \o (IF attrs.account # <<>>
            THEN <<TAB>> \o kAccount \o <<SP, SP>> \o attrs.account \o <<NL>>
            ELSE <<>>)
        \o <<TAB>> \o kPassword \o <<SP, SP>> \o attrs.password \o <<NL>>

\* format!("macdef {}\n", ..) and "{}\n" for each line
FmtMacro(name, lines) ==
    kMacdef \o <<SP>> \o name \o <<NL>>
        \o Cat([i \in 1..Len(lines) |-> lines[i] \o <<NL>>])

Display(hs, ms, horder, morder) ==
    Cat([i \in 1..Len(horder) |-> FmtHost(horder[i], hs[horder[i]])])
        \o Cat([i \in 1..Len(morder) |-> FmtMacro(morder[i], ms[morder[i]])])

-----------------------------------------------------------------------------
(* NetrcMiddleware::init (src/reqwest-netrc/src/lib.rs:19-51).  A request  *)
(* is a record: host is r.url().host_str() as an Option, cloneable tells   *)
(* whether try_clone gives a copy (it does not for a streamed body),       *)
(* builds whether build() succeeds, auth is <<>> or <<credentials>>.       *)

\* mutant of Lookup: the default entry is looked up first
LookupDefaultFirst(hs, host) ==
    IF kDefault \in DOMAIN hs THEN <<hs[kDefault]>>
    ELSE IF host \in DOMAIN hs THEN <<hs[host]>>
    ELSE <<>>

\* self.nrc.hosts.get(host).or_else(|| self.nrc.hosts.get("default"))
Lookup(hs, host) ==
    IF host \in DOMAIN hs THEN <<hs[host]>>
    ELSE IF kDefault \in DOMAIN hs THEN <<hs[kDefault]>>
    ELSE <<>>

\* nr.basic_auth(&auth.login, None or Some(&auth.password))
basic_auth(r, a) ==
    [r EXCEPT !.auth = <<[login |-> a.login,
                          password |-> IF a.password = <<>> THEN <<>>
                                       ELSE <<a.password>>]>>]

init(hs, r) ==
    IF ~r.cloneable THEN r
    ELSE IF ~r.builds THEN r
    ELSE IF r.host = <<>> THEN r
    ELSE IF Lookup(hs, r.host[1]) = <<>> THEN r
    ELSE basic_auth(r, Lookup(hs, r.host[1])[1])

-----------------------------------------------------------------------------
(* The inputs.                                                             *)

\* bounds of the model
MaxLines == 3
MaxChars == 4
MaxPush == 2

RECURSIVE JoinWith(_, _)
\* the strings of ws with sep after each but the last
JoinWith(ws, sep) ==
    IF ws = <<>> THEN <<>>
    ELSE IF Len(ws) = 1 THEN ws[1]
    ELSE ws[1] \o sep \o JoinWith(Tail(ws), sep)

SeqsUpTo(S, n) == UNION {[1..k -> S] : k \in 0..n}

\* lines of a netrc file, without their newline
Lines ==
    { <<>>,                                                \* blank line
      <<HASH, SP, "c">>,                                   \* # c
      <<HASH>>,                                            \* #
      JoinWith(<<kMachine, <<"h">>, kLogin, <<"x">>>>, <<SP>>),
      JoinWith(<<kMachine, <<"h">>>>, <<SP>>),
      kDefault,
      JoinWith(<<kMacdef, <<"m">>>>, <<SP>>),
      JoinWith(<<kMacdef, <<"n">>>>, <<SP>>) \o <<SP>>,     \* trailing space
      JoinWith(<<kAccount, <<"z">>>>, <<SP>>),
      kLogin,                                              \* keyword alone
      <<"x">>,                                             \* a plain word
      kMachine,                                            \* no name
      kMachine \o <<SP, QUOTE, QUOTE>>,                     \* machine ""
      <<HASH, "c", SP>> \o kDefault,                        \* #c default
      <<QUOTE, QUOTE, SP>> \o kDefault,                     \* "" default
      <<FF>>,                                              \* a form feed
      JoinWith(<<kMachine, <<"h">>, <<HASH, "c">>, kLogin, <<"x">>>>,
               <<SP>>) }                                   \* machine h #c login x

\* files of up to MaxLines lines, the last one with or without its newline
LineInputs ==
    {JoinWith(ls, <<NL>>) \o fin :
        ls \in SeqsUpTo(Lines, MaxLines), fin \in {<<>>, <<NL>>}}

AttrKeys == {kLogin, kUser, kAccount, kPassword}

\* the field an attribute keyword assigns (netrc.rs:148-156)
FieldOf(k) ==
    CASE k \in {kLogin, kUser} -> "login"
      [] k = kAccount -> "account"
      [] k = kPassword -> "password"

\* sequences of attribute keywords in which no field is named twice
KeySeqs ==
    {ks \in SeqsUpTo(AttrKeys, 3) :
        \A i, j \in DOMAIN ks : FieldOf(ks[i]) = FieldOf(ks[j]) => i = j}

\* values as written in the file
ValueWords == { <<"x">>, <<QUOTE, QUOTE>>, <<HASH>>, <<"y", HASH, "y">> }

Headers == { <<kMachine, <<"h">>>>, <<kDefault>> }

\* one block: the header, then keyword value pairs, then possibly a
\* keyword without a value
BlockText(hdr, ks, vs, last) ==
    JoinWith(hdr \o [i \in 1..(2 * Len(ks)) |->
                        IF i % 2 = 1 THEN ks[(i + 1) \div 2]
                        ELSE vs[i \div 2]] \o last, <<SP>>)

\* the keywords of a block with a value for each
KeyValues ==
    {kv \in KeySeqs \X SeqsUpTo(ValueWords, 3) : Len(kv[1]) = Len(kv[2])}

BlockInputs ==
    {BlockText(hdr, kv[1], kv[2], <<>>) :
        hdr \in Headers, kv \in KeyValues} \cup
    {BlockText(hdr, kv[1], kv[2], <<k>>) :
        hdr \in Headers,
        kv \in {q \in KeyValues : Len(q[1]) < 3},
        k \in AttrKeys}

\* the ways a macro is declared: the name followed by the newline, in
\* quotes, followed by a blank, followed by text, with an escaped blank,
\* and on the next line
MacroHeaders ==
    { JoinWith(<<kMacdef, <<"m">>>>, <<SP>>),               \* macdef m
      kMacdef \o <<SP, QUOTE, "n", QUOTE>>,                 \* macdef "n"
      JoinWith(<<kMacdef, <<"n">>>>, <<SP>>) \o <<SP>>,     \* macdef n_
      JoinWith(<<kMacdef, <<"m">>, <<"x">>>>, <<SP>>),      \* macdef m x
      kMacdef \o <<SP, "a", BSLASH, SP, "b">>,              \* macdef a\ b
      kMacdef }                                            \* macdef

\* the lines that follow a macro declaration
MacroLines ==
    { <<>>,                                                \* blank line
      <<"x">>,
      <<SP, "x", SP>>,                                     \* blanks around
      <<TAB, "y">>,                                        \* leading tab
      <<FF>>,                                              \* a form feed
      JoinWith(<<kMacdef, <<"m">>>>, <<SP>>) }              \* macdef m

\* a macro declaration followed by up to MaxLines lines
MacroInputs ==
    {JoinWith(<<hdr>> \o ls, <<NL>>) \o fin :
        hdr \in MacroHeaders, ls \in SeqsUpTo(MacroLines, MaxLines),
        fin \in {<<>>, <<NL>>}}

Inputs == LineInputs \cup BlockInputs \cup MacroInputs

LexAlphabet == {"a", SP, NL, QUOTE, BSLASH, HASH}
LexInputs == SeqsUpTo(LexAlphabet, MaxChars)
PushTokens == {<<>>, kMachine}

\* the requests handed to the middleware: to host h, to host g, which no
\* input names, or without a host
Requests ==
    [host : {<<>>, <<<<"h">>>>, <<<<"g">>>>}, cloneable : BOOLEAN,
     builds : BOOLEAN, auth : {<<>>}]

-----------------------------------------------------------------------------
(* The state machine of from_str.                                          *)

State ==
    [input |-> input, instream |-> instream, lineno |-> lineno,
     pushback |-> pushback, hosts |-> hosts, macros |-> macros, pc |-> pc,
     entryname |-> entryname, auth |-> auth, v |-> v, result |-> result]

Becomes(s) ==
    /\ input' = s.input
    /\ instream' = s.instream
    /\ lineno' = s.lineno
    /\ pushback' = s.pushback
    /\ hosts' = s.hosts
    /\ macros' = s.macros
    /\ pc' = s.pc
    /\ entryname' = s.entryname
    /\ auth' = s.auth
    /\ v' = s.v
    /\ result' = s.result

NoCall == [op |-> "none", ret |-> <<>>, before |-> LexNew(<<>>)]

ParserInit(text) ==
    /\ input = Start(text).input
    /\ instream = Start(text).instream
    /\ lineno = Start(text).lineno
    /\ pushback = Start(text).pushback
    /\ hosts = Start(text).hosts
    /\ macros = Start(text).macros
    /\ pc = Start(text).pc
    /\ entryname = Start(text).entryname
    /\ auth = Start(text).auth
    /\ v = Start(text).v
    /\ result = Start(text).result

Init ==
    /\ \E text \in Inputs : ParserInit(text)
    /\ rep = <<>>
    /\ call = NoCall
    /\ request = <<>>

\* the token the next iteration of the outer or of the attribute loop reads
NextToken == get_token(LexOf(State)).tok

IsComment(tt) == tt # <<>> /\ Head(tt) = HASH

\* the arms of the outer loop (netrc.rs:79-131)
TopEnd ==
    /\ pc = "top" /\ NextToken = <<>>
    /\ Becomes(Top(State)) /\ UNCHANGED <<rep, call, request>>

TopComment ==
    /\ pc = "top" /\ IsComment(NextToken)
    /\ Becomes(Top(State)) /\ UNCHANGED <<rep, call, request>>

TopMachine ==
    /\ pc = "top" /\ NextToken = kMachine
    /\ Becomes(Top(State)) /\ UNCHANGED <<rep, call, request>>

TopDefault ==
    /\ pc = "top" /\ NextToken = kDefault
    /\ Becomes(Top(State)) /\ UNCHANGED <<rep, call, request>>

TopMacdef ==
    /\ pc = "top" /\ NextToken = kMacdef
    /\ Becomes(Top(State)) /\ UNCHANGED <<rep, call, request>>

TopBad ==
    /\ pc = "top"
    /\ NextToken # <<>> /\ ~IsComment(NextToken)
    /\ NextToken \notin {kMachine, kDefault, kMacdef}
    /\ Becomes(Top(State)) /\ UNCHANGED <<rep, call, request>>

\* the macro line loop (netrc.rs:107-115)
MacroLine ==
    /\ pc = "macdef" /\ trim(read_line(LexOf(State)).line) # <<>>
    /\ Becomes(Macro(State)) /\ UNCHANGED <<rep, call, request>>

MacroEnd ==
    /\ pc = "macdef" /\ trim(read_line(LexOf(State)).line) = <<>>
    /\ Becomes(Macro(State)) /\ UNCHANGED <<rep, call, request>>

\* the arms of the attribute loop (netrc.rs:133-164)
AttrComment ==
    /\ pc = "attr" /\ IsComment(NextToken)
    /\ Becomes(Attr(State)) /\ UNCHANGED <<rep, call, request>>

AttrBoundary ==
    /\ pc = "attr" /\ NextToken \in {<<>>, kMachine, kDefault, kMacdef}
    /\ Becomes(Attr(State)) /\ UNCHANGED <<rep, call, request>>

AttrLogin ==
    /\ pc = "attr" /\ NextToken \in {kLogin, kUser}
    /\ Becomes(Attr(State)) /\ UNCHANGED <<rep, call, request>>

AttrAccount ==
    /\ pc = "attr" /\ NextToken = kAccount
    /\ Becomes(Attr(State)) /\ UNCHANGED <<rep, call, request>>

AttrPassword ==
    /\ pc = "attr" /\ NextToken = kPassword
    /\ Becomes(Attr(State)) /\ UNCHANGED <<rep, call, request>>

AttrBad ==
    /\ pc = "attr"
    /\ NextToken # <<>> /\ ~IsComment(NextToken)
    /\ NextToken \notin {kMachine, kDefault, kMacdef, kLogin, kUser,
                         kAccount, kPassword}
    /\ Becomes(Attr(State)) /\ UNCHANGED <<rep, call, request>>

\* the caller formats the document it got (to_string)
Format ==
    /\ pc = "done" /\ result.kind = "Ok" /\ rep = <<>> /\ request = <<>>
    /\ \E horder \in Orders(hosts), morder \in Orders(macros) :
          rep' = <<Display(hosts, macros, horder, morder)>>
    /\ UNCHANGED <<input, instream, lineno, pushback, hosts, macros, pc,
                   entryname, auth, v, result, call, request>>

\* a client built with the middleware of the parsed document sends a
\* request: init is applied to it (reqwest-netrc/src/lib.rs:19-51)
Initialise ==
    /\ pc = "done" /\ result.kind = "Ok" /\ rep = <<>> /\ request = <<>>
    /\ \E r \in Requests :
          request' = <<[given |-> r, returned |-> init(hosts, r)]>>
    /\ UNCHANGED <<input, instream, lineno, pushback, hosts, macros, pc,
                   entryname, auth, v, result, rep, call>>

Next ==
    \/ TopEnd \/ TopComment \/ TopMachine \/ TopDefault \/ TopMacdef
    \/ TopBad
    \/ MacroLine \/ MacroEnd
    \/ AttrComment \/ AttrBoundary \/ AttrLogin \/ AttrAccount
    \/ AttrPassword \/ AttrBad
    \/ Format
    \/ Initialise

Spec == Init /\ [][Next]_vars

-----------------------------------------------------------------------------
(* A Lex used directly: any sequence of calls on a Lex over one text.      *)

Lex == [instream |-> instream, lineno |-> lineno, pushback |-> pushback]

LexBecomes(lex) ==
    /\ instream' = lex.instream
    /\ lineno' = lex.lineno
    /\ pushback' = lex.pushback
    /\ UNCHANGED <<input, hosts, macros, pc, entryname, auth, v, result,
                   rep, request>>

LexInit ==
    /\ \E text \in LexInputs : ParserInit(text)
    /\ rep = <<>>
    /\ call = NoCall
    /\ request = <<>>

CallReadChar ==
    /\ LexBecomes(read_char(Lex).lex)
    /\ call' = [op |-> "read_char", ret |-> read_char(Lex).ch,
                before |-> Lex]

CallReadLine ==
    /\ LexBecomes(read_line(Lex).lex)
    /\ call' = [op |-> "read_line", ret |-> read_line(Lex).line,
                before |-> Lex]

CallGetToken ==
    /\ LexBecomes(get_token(Lex).lex)
    /\ call' = [op |-> "get_token", ret |-> get_token(Lex).tok,
                before |-> Lex]

CallPushToken ==
    /\ Len(pushback) < MaxPush
    /\ \E t \in PushTokens :
          /\ LexBecomes(push_token(Lex, t))
          /\ call' = [op |-> "push_token", ret |-> t, before |-> Lex]

LexNext == CallReadChar \/ CallReadLine \/ CallGetToken \/ CallPushToken

SpecLex == LexInit /\ [][LexNext]_vars

-----------------------------------------------------------------------------
(* Positions in the input, used to state the properties.                   *)

\* number of characters consumed from the input so far
Consumed == Len(input) - Len(instream)

RECURSIVE LeadingWs(_)
\* number of whitespace characters at the front of s
LeadingWs(s) ==
    IF s # <<>> /\ Head(s) \in Whitespace THEN 1 + LeadingWs(Tail(s)) ELSE 0

\* with an empty pushback queue and a token left in the input: the index
\* in input of the first character of the token the next get_token scans
NextTokenStart == Consumed + LeadingWs(instream) + 1

\* number of newline characters among the first n characters of the input
NewlinesBefore(n) == Cardinality({i \in 1..n : input[i] = NL})

\* 1-based number of the line that holds position p of the input
LineOf(p) == 1 + NewlinesBefore(p - 1)

\* the token at position p is the first one on its line
FirstOnLine(p) ==
    \E b \in 1..p :
        /\ b = 1 \/ input[b - 1] = NL
        /\ \A i \in b..(p - 1) : input[i] \in Whitespace \ {NL}

\* the text of the input that follows the line holding position p
AfterLine(p) ==
    IF \E i \in p..Len(input) : input[i] = NL
    THEN LET e == CHOOSE i \in p..Len(input) :
                     /\ input[i] = NL
                     /\ \A j \in p..(i - 1) : input[j] # NL
         IN  SubSeq(input, e + 1, Len(input))
    ELSE <<>>

\* a lone '#' followed by a blank or a tab starts at position p
LoneHashAt(p) ==
    /\ p < Len(input)
    /\ input[p] = HASH
    /\ input[p + 1] \in {SP, TAB}

-----------------------------------------------------------------------------
\* C1: a line whose first token is a lone '#' is discarded as a whole by
\* from_str: when the outer loop or the attribute loop reads that '#', the
\* iteration leaves the cursor at the start of the next line, raises no
\* error and changes neither hosts nor macros, whatever precedes the line.
C1_CommentLineDiscarded ==
    [][(/\ pc \in {"top", "attr"}
        /\ pushback = <<>>
        /\ NextTokenStart <= Len(input)
        /\ LoneHashAt(NextTokenStart)
        /\ FirstOnLine(NextTokenStart))
       => (/\ instream' = AfterLine(NextTokenStart)
           /\ result'.kind # "Err"
           /\ hosts' = hosts /\ macros' = macros)]_vars

\* C2: the lineno of a ParsingError for a bad token is the 1-based number
\* of the input line on which that token starts (1 plus the number of
\* newlines before it).
C2_ErrorLineIsTokenLine ==
    [][(/\ pc \in {"top", "attr"}
        /\ pushback = <<>>
        /\ result'.kind = "Err"
        /\ result'.message \in {BadToplevelMsg(NextToken),
                                BadFollowerMsg(NextToken)})
       => result'.lineno = LineOf(NextTokenStart)]_vars

\* the characters that make a token not plain
NotPlain == {QUOTE, BSLASH, HASH}

\* the input is made of keywords and plain tokens only, every entry has a
\* login and a password, and the lines of its macros hold no whitespace
PlainDocument ==
    /\ \A i \in 1..Len(input) : input[i] \notin NotPlain
    /\ \A h \in DOMAIN hosts :
          hosts[h].login # <<>> /\ hosts[h].password # <<>>
    /\ \A m \in DOMAIN macros : \A i \in 1..Len(macros[m]) :
          \A j \in 1..Len(macros[m][i]) : macros[m][i][j] \notin Whitespace

\* C3: round trip: for an input of keywords and plain tokens, with any
\* number of entries and of macros, the text Display gives for the parsed
\* document parses again, to the same hosts and macros.  (Stated for the
\* documents in which no login or password is empty, so that Display
\* writes a value after every keyword.)
C3_RoundTrip ==
    (rep # <<>> /\ PlainDocument)
    => LET again == from_str(rep[1])
       IN  /\ again.result.kind = "Ok"
           /\ again.hosts = hosts
           /\ again.macros = macros

-----------------------------------------------------------------------------
(* The input seen as words, used to state the properties of one block.     *)

RECURSIVE WordsFrom(_, _, _)
\* the maximal runs of non-whitespace characters of s, in order
WordsFrom(s, cur, acc) ==
    IF s = <<>> THEN (IF cur = <<>> THEN acc ELSE Append(acc, cur))
    ELSE IF Head(s) \in Whitespace
         THEN WordsFrom(Tail(s), <<>>,
                        IF cur = <<>> THEN acc ELSE Append(acc, cur))
         ELSE WordsFrom(Tail(s), Append(cur, Head(s)), acc)

Words(s) == WordsFrom(s, <<>>, <<>>)

\* a word without quote or backslash is the token get_token makes of it
PlainWord(w) == \A i \in 1..Len(w) : w[i] \notin {QUOTE, BSLASH}

QuotedEmpty == <<QUOTE, QUOTE>>
IsValueWord(w) == PlainWord(w) \/ w = QuotedEmpty
\* the value a value word stands for
ValueOf(w) == IF w = QuotedEmpty THEN <<>> ELSE w

HdrLen(w) == IF w[1] = kMachine THEN 2 ELSE 1
BlockName(w) == IF w[1] = kMachine THEN w[2] ELSE kDefault
BlockHdr(w) == SubSeq(w, 1, HdrLen(w))
Body(w) == SubSeq(w, HdrLen(w) + 1, Len(w))
NPairs(w) == Len(Body(w)) \div 2
KeyAt(w, i) == Body(w)[2 * i - 1]
ValAt(w, i) == Body(w)[2 * i]
HasTrailing(w) == Len(Body(w)) % 2 = 1
Trailing(w) == w[Len(w)]

\* w is one machine or default block: the header, keyword value pairs
\* that name each field at most once, and possibly a last keyword that
\* has no value
IsBlock(w) ==
    /\ w # <<>>
    /\ \/ w[1] = kDefault
       \/ w[1] = kMachine /\ Len(w) >= 2 /\ PlainWord(w[2])
    /\ \A i \in 1..NPairs(w) :
          KeyAt(w, i) \in AttrKeys /\ IsValueWord(ValAt(w, i))
    /\ \A i, j \in 1..NPairs(w) :
          FieldOf(KeyAt(w, i)) = FieldOf(KeyAt(w, j)) => i = j
    /\ HasTrailing(w) => Trailing(w) \in AttrKeys

Fields == {"login", "account", "password"}

\* the permutations of 1..n
Perms(n) == {f \in [1..n -> 1..n] : \A i, j \in 1..n : f[i] = f[j] => i = j}

\* the block w with its pairs in the order f
Permuted(w, f) ==
    JoinWith(BlockHdr(w) \o [i \in 1..(2 * NPairs(w)) |->
                 IF i % 2 = 1 THEN KeyAt(w, f[(i + 1) \div 2])
                 ELSE ValAt(w, f[i \div 2])], <<SP>>)

Parsed == pc = "done" /\ rep = <<>>

\* C4: within one block that names each of login (or user), account and
\* password at most once, every permutation of the (keyword, value) pairs
\* parses to the same Authenticator for the entry.
C4_AttributeOrderIrrelevant ==
    LET w == Words(input) IN
    (Parsed /\ IsBlock(w) /\ ~HasTrailing(w))
    => /\ result.kind = "Ok"
       /\ BlockName(w) \in DOMAIN hosts
       /\ \A f \in Perms(NPairs(w)) :
             LET other == from_str(Permuted(w, f))
             IN  /\ other.result.kind = "Ok"
                 /\ BlockName(w) \in DOMAIN other.hosts
                 /\ other.hosts[BlockName(w)] = hosts[BlockName(w)]

\* C4 witness: a parsed block with three pairs, all three fields set
C4_Witness ==
    LET w == Words(input) IN
    /\ Parsed /\ IsBlock(w) /\ ~HasTrailing(w) /\ NPairs(w) = 3
    /\ result.kind = "Ok"
    /\ BlockName(w) \in DOMAIN hosts
    /\ \A fld \in Fields : hosts[BlockName(w)][fld] # <<>>
    /\ hosts[BlockName(w)].login # hosts[BlockName(w)].password



\* field fld of block w is omitted, given as "" or given as the last
\* keyword, which has no value before the end of the input
GivenEmpty(w, fld) ==
    \/ /\ \A i \in 1..NPairs(w) : FieldOf(KeyAt(w, i)) # fld
       /\ ~HasTrailing(w)
    \/ /\ \E i \in 1..NPairs(w) :
             FieldOf(KeyAt(w, i)) = fld /\ ValAt(w, i) = QuotedEmpty
       /\ ~HasTrailing(w)
    \/ HasTrailing(w) /\ FieldOf(Trailing(w)) = fld
    \/ /\ HasTrailing(w) /\ FieldOf(Trailing(w)) # fld
       /\ \A i \in 1..NPairs(w) :
             FieldOf(KeyAt(w, i)) = fld => ValAt(w, i) = QuotedEmpty

\* C5: in a machine or default block, each of login, account and password
\* that is omitted, given as "" or given as a keyword with no value before
\* the end of the input is the empty string in the stored Authenticator,
\* and the parse succeeds.
C5_OmittedFieldsEmpty ==
    LET w == Words(input) IN
    (Parsed /\ IsBlock(w))
    => /\ result.kind = "Ok"
       /\ BlockName(w) \in DOMAIN hosts
       /\ \A fld \in Fields :
             GivenEmpty(w, fld) => hosts[BlockName(w)][fld] = <<>>

\* C5 witness: a parsed block with a "" value, a last keyword without a
\* value, and a field that is set
C5_Witness ==
    LET w == Words(input) IN
    /\ Parsed /\ IsBlock(w) /\ HasTrailing(w) /\ result.kind = "Ok"
    /\ \E i \in 1..NPairs(w) : ValAt(w, i) = QuotedEmpty
    /\ \E fld \in Fields : hosts[BlockName(w)][fld] # <<>>
    /\ \E fld \in Fields :
          GivenEmpty(w, fld) /\ hosts[BlockName(w)][fld] = <<>>

-----------------------------------------------------------------------------
\* the first line of text, without its newline
FirstLine(text) ==
    IF \E i \in 1..Len(text) : text[i] = NL
    THEN SubSeq(text, 1, (CHOOSE i \in 1..Len(text) :
                    text[i] = NL /\ \A j \in 1..(i - 1) : text[j] # NL) - 1)
    ELSE text

\* text without its first line
DropLine(text) == SubSeq(text, Len(FirstLine(text)) + 2, Len(text))

RECURSIVE MacroBody(_, _)
\* the lines of text up to the first line that is empty after trimming,
\* each trimmed, and the text that follows that line
MacroBody(text, acc) ==
    IF trim(FirstLine(text)) = <<>>
    THEN [lines |-> acc, rest |-> DropLine(text)]
    ELSE MacroBody(DropLine(text), Append(acc, trim(FirstLine(text))))


\* the input starts with 'macdef <name>', the name a plain word
StartsWithMacdef ==
    LET w == Words(input)
    IN  Len(w) >= 2 /\ w[1] = kMacdef /\ PlainWord(w[2])

\* the position that follows the name of that macdef
AfterFirstName ==
    LET a == LeadingWs(input) + Len(kMacdef)
    IN  a + LeadingWs(SubSeq(input, a + 1, Len(input)))
          + Len(Words(input)[2]) + 1

\* the macro line loop ends the first declaration of the input
FirstMacroEnds ==
    /\ StartsWithMacdef
    /\ pc = "macdef" /\ pc' = "top"
    /\ DOMAIN macros = {} /\ DOMAIN hosts = {}

\* C6: for 'macdef <name>' followed by lines, macros[name] is the sequence
\* of the lines after the macdef line up to the first line that is empty
\* after trimming (or the end of the input), trimmed and in order, and
\* parsing resumes at top level with the text after that blank line.
C6_MacroIsLinesAfterMacdefLine ==
    [][FirstMacroEnds
       => LET name == Words(input)[2]
              body == MacroBody(AfterLine(AfterFirstName), <<>>)
          IN  /\ name \in DOMAIN macros'
              /\ macros'[name] = body.lines
              /\ instream' = body.rest]_vars


-----------------------------------------------------------------------------
(* The token of a text, stated in two passes: first the escapes are        *)
(* resolved, then the token is delimited by the characters that kept       *)
(* their special meaning.                                                  *)

RECURSIVE Units(_)
\* the characters of s with their escapes resolved: a backslash and the
\* character after it make one escaped character, a last backslash an
\* escaped blank
Units(s) ==
    IF s = <<>> THEN <<>>
    ELSE IF Head(s) = BSLASH
         THEN IF Len(s) = 1 THEN <<[c |-> SP, esc |-> TRUE]>>
              ELSE <<[c |-> s[2], esc |-> TRUE]>>
                       \o Units(SubSeq(s, 3, Len(s)))
         ELSE <<[c |-> Head(s), esc |-> FALSE]>> \o Units(Tail(s))

\* u[i] is one of the characters of S and is not escaped
Special(u, i, S) == ~u[i].esc /\ u[i].c \in S

\* the first index from a on at which u holds an unescaped character of
\* S, or Len(u) + 1
FirstSpecial(u, a, S) ==
    IF \E i \in a..Len(u) : Special(u, i, S)
    THEN CHOOSE i \in a..Len(u) :
             Special(u, i, S) /\ \A j \in a..(i - 1) : ~Special(u, j, S)
    ELSE Len(u) + 1

CharsOf(u, a, b) == [i \in 1..(b - a + 1) |-> u[a + i - 1].c]

TokenOf(s) ==
    LET u == Units(s)
        a == IF \E i \in 1..Len(u) : ~Special(u, i, Whitespace)
             THEN CHOOSE i \in 1..Len(u) :
                      /\ ~Special(u, i, Whitespace)
                      /\ \A j \in 1..(i - 1) : Special(u, j, Whitespace)
             ELSE Len(u) + 1
    IN  IF a > Len(u) THEN <<>>
        ELSE IF Special(u, a, {QUOTE})
             THEN CharsOf(u, a + 1, FirstSpecial(u, a + 1, {QUOTE}) - 1)
             ELSE CharsOf(u, a, FirstSpecial(u, a, Whitespace) - 1)

\* C7: in get_token a backslash followed by a character c appends exactly
\* c to the token and removes c's special meaning, inside and outside
\* quotes (an escaped quote neither opens nor closes a quoted token, an
\* escaped whitespace does not end an unquoted token, an escaped backslash
\* is a backslash), and a backslash that ends the input appends a blank.
C7_EscapeIsLiteral ==
    (call.op = "get_token" /\ call.before.pushback = <<>>)
    => call.ret = TokenOf(call.before.instream)

\* C7 witness: get_token has returned a token that starts with an escaped
\* quote and holds an escaped blank
C7_Witness ==
    /\ call.op = "get_token" /\ call.before.pushback = <<>>
    /\ call.before.instream = <<BSLASH, QUOTE, BSLASH, SP>>
    /\ call.ret = <<QUOTE, SP>>

-----------------------------------------------------------------------------
\* C8: the token that follows login, user, account or password is stored
\* as the value of the field whatever its text is: a value that starts
\* with '#', ends with '#' or holds '#' is not a comment, and the tokens
\* after it on the same line are parsed as usual.
C8_HashValueStored ==
    LET w == Words(input) IN
    (Parsed /\ IsBlock(w) /\ ~HasTrailing(w))
    => /\ result.kind = "Ok"
       /\ BlockName(w) \in DOMAIN hosts
       /\ \A i \in 1..NPairs(w) :
             hosts[BlockName(w)][FieldOf(KeyAt(w, i))] = ValueOf(ValAt(w, i))

\* C8 witness: a parsed one-line block whose first value is '#' and whose
\* later values, one of them holding '#', are stored too
C8_Witness ==
    LET w == Words(input) IN
    /\ Parsed /\ IsBlock(w) /\ ~HasTrailing(w) /\ NPairs(w) = 3
    /\ \A i \in 1..Len(input) : input[i] # NL
    /\ ValAt(w, 1) = <<HASH>> /\ ValAt(w, 2) = <<"y", HASH, "y">>
    /\ ValAt(w, 3) = <<"x">>
    /\ hosts[BlockName(w)][FieldOf(KeyAt(w, 1))] = <<HASH>>
    /\ hosts[BlockName(w)][FieldOf(KeyAt(w, 2))] = <<"y", HASH, "y">>
    /\ hosts[BlockName(w)][FieldOf(KeyAt(w, 3))] = <<"x">>

-----------------------------------------------------------------------------
\* s starts with the text t
StartsWith(s, t) == Len(s) >= Len(t) /\ SubSeq(s, 1, Len(t)) = t

ToplevelText ==
    <<"b", "a", "d", " ", "t", "o", "p", "l", "e", "v", "e", "l", " ",
      "t", "o", "k", "e", "n", " ", "'">>

FollowerText ==
    <<"b", "a", "d", " ", "f", "o", "l", "l", "o", "w", "e", "r", " ",
      "t", "o", "k", "e", "n", " ", "'">>

\* tt is neither empty nor a comment nor one of the keywords of K
BadFor(tt, K) == tt # <<>> /\ Head(tt) # HASH /\ tt \notin K

ToplevelKeywords == {kMachine, kDefault, kMacdef}
FollowerKeywords == ToplevelKeywords \cup AttrKeys

\* C9: at top level, a token that is not empty, does not start with '#'
\* and is not machine, default or macdef makes from_str return the error
\* "bad toplevel token '<token>'" naming that token, and that error is
\* raised by no other token.
C9_BadToplevelToken ==
    [][/\ (pc = "top" /\ BadFor(NextToken, ToplevelKeywords))
          => /\ pc' = "done"
             /\ result'.kind = "Err"
             /\ result'.message = ToplevelText \o NextToken \o <<"'">>
       /\ (result'.kind = "Err" /\ StartsWith(result'.message, ToplevelText)
           /\ result.kind = "none")
          => (pc = "top" /\ BadFor(NextToken, ToplevelKeywords))]_vars

\* C9 witness: after an entry was stored, the parse failed on the
\* top-level token x
C9_Witness ==
    /\ pc = "done" /\ result.kind = "Err"
    /\ result.message = ToplevelText \o <<"x", "'">>
    /\ DOMAIN hosts # {}

\* the outer loop is about to scan the plain word 'default'
DefaultAhead ==
    /\ pc = "top" /\ pushback = <<>>
    /\ NextToken = kDefault
    /\ SubSeq(input, NextTokenStart, NextTokenStart + Len(kDefault) - 1)
         = kDefault

\* C10: inside a machine or default block, a token in keyword position
\* that is not empty, not a comment and not one of machine, default,
\* macdef, login, user, account, password makes from_str return the error
\* "bad follower token '<token>'" naming that token, and that error is
\* raised by no other token; 'default' takes no name: the token right
\* after it is the first one read in keyword position.
C10_BadFollowerToken ==
    [][/\ (pc = "attr" /\ BadFor(NextToken, FollowerKeywords))
          => /\ pc' = "done"
             /\ result'.kind = "Err"
             /\ result'.message = FollowerText \o NextToken \o <<"'">>
       /\ (result'.kind = "Err" /\ StartsWith(result'.message, FollowerText)
           /\ result.kind = "none")
          => (pc = "attr" /\ BadFor(NextToken, FollowerKeywords))
       /\ DefaultAhead
          => /\ pc' = "attr"
             /\ entryname' = kDefault
             /\ instream' = SubSeq(input,
                                   NextTokenStart + Len(kDefault) + 1,
                                   Len(input))]_vars

\* C10 witness: the word after 'default' was read as a follower token and
\* refused
C10_Witness ==
    LET w == Words(input) IN
    /\ pc = "done" /\ result.kind = "Err"
    /\ Len(w) >= 2 /\ w[1] = kDefault /\ w[2] = <<"x">>
    /\ result.message = FollowerText \o <<"x", "'">>

-----------------------------------------------------------------------------
MissingText == <<"m", "i", "s", "s", "i", "n", "g", " ", "'">>

MissingMachineText ==
    MissingText \o kMachine \o <<"'", " ", "n", "a", "m", "e">>

\* the outer loop is about to read 'machine', and what follows it in the
\* input is nothing but whitespace, or a quoted empty string
MachineWithoutName ==
    /\ pc = "top" /\ NextToken = kMachine
    /\ LET rest == get_token(LexOf(State)).lex.instream
           after == SubSeq(rest, LeadingWs(rest) + 1, Len(rest))
       IN  after = <<>> \/ StartsWith(after, QuotedEmpty)

\* C11: when the host name read after 'machine' is empty (the input ends,
\* or the name is a quoted empty string) from_str returns the error
\* "missing 'machine' name" and stores no entry under the empty name; no
\* other case raises a missing name error, a 'default' block never does.
C11_MissingMachineName ==
    [][/\ MachineWithoutName
          => /\ pc' = "done"
             /\ result'.kind = "Err"
             /\ result'.message = MissingMachineText
             /\ hosts' = hosts
       /\ <<>> \notin DOMAIN hosts'
       /\ (result'.kind = "Err" /\ StartsWith(result'.message, MissingText)
           /\ result.kind = "none")
          => (MachineWithoutName /\ result'.message = MissingMachineText)
       /\ (pc = "top" /\ NextToken = kDefault)
          => (pc' = "attr" /\ result'.kind = "none")]_vars

\* C11 witness: after an entry was stored, the parse failed on a machine
\* whose name is a quoted empty string
C11_Witness ==
    /\ pc = "done" /\ result.kind = "Err"
    /\ result.message = MissingMachineText
    /\ Len(input) >= 2
    /\ SubSeq(input, Len(input) - 1, Len(input)) = QuotedEmpty
    /\ DOMAIN hosts # {}
    /\ <<>> \notin DOMAIN hosts

-----------------------------------------------------------------------------
\* the next step of from_str meets a bad toplevel token, a bad follower
\* token or a machine without a name
ErrorAhead ==
    \/ pc = "top" /\ BadFor(NextToken, ToplevelKeywords)
    \/ pc = "attr" /\ BadFor(NextToken, FollowerKeywords)
    \/ MachineWithoutName

\* C12: from_str returns either an error or a document, never both: the
\* step that meets a bad toplevel token, a bad follower token or a missing
\* name ends the parse with Err, the value returned then holds a line and
\* a message and none of the entries and macros collected before, and the
\* caller never gets a document to format after an error.
C12_ErrorOrDocument ==
    [][/\ (result.kind = "none" /\ ErrorAhead)
          => /\ pc' = "done"
             /\ result'.kind = "Err"
             /\ DOMAIN Returned(State)' = {"kind", "lineno", "message"}
       /\ pc' = "done"
          => /\ result'.kind \in {"Ok", "Err"}
             /\ ("hosts" \in DOMAIN Returned(State)') = (result'.kind = "Ok")
             /\ ("macros" \in DOMAIN Returned(State)') = (result'.kind = "Ok")
             /\ ("message" \in DOMAIN Returned(State)')
                   = (result'.kind = "Err")
       /\ result.kind = "Err" => (result' = result /\ rep' = <<>>)]_vars

\* C12 witness: the parse failed after it had collected an entry and a
\* macro, and the value returned holds neither
C12_Witness ==
    /\ pc = "done" /\ result.kind = "Err"
    /\ DOMAIN hosts # {} /\ DOMAIN macros # {}
    /\ Returned(State).kind = "Err"
    /\ "hosts" \notin DOMAIN Returned(State)

-----------------------------------------------------------------------------
(* The input seen as lines that make blocks.                               *)

RECURSIVE LinesOf(_)
\* the lines of text, without their newlines
LinesOf(text) ==
    IF text = <<>> THEN <<>>
    ELSE <<FirstLine(text)>> \o LinesOf(DropLine(text))

\* line l starts a block: 'machine <name>' or 'default', then pairs
HeaderLine(l) == IsBlock(Words(l)) /\ ~HasTrailing(Words(l))

\* line l holds keyword value pairs only, or nothing
PairsLine(l) ==
    LET w == <<kDefault>> \o Words(l) IN IsBlock(w) /\ ~HasTrailing(w)

\* the input is a sequence of blocks: the first line starts a block and
\* every line starts or continues one
BlocksOnly ==
    LET ls == LinesOf(input) IN
    /\ ls # <<>> /\ HeaderLine(ls[1])
    /\ \A i \in 1..Len(ls) : HeaderLine(ls[i]) \/ PairsLine(ls[i])

\* the names of the blocks of the input
NamesOf(ls) ==
    {BlockName(Words(ls[i])) : i \in {j \in 1..Len(ls) : HeaderLine(ls[j])}}

\* the index of the line that starts the last block named name
LastHeader(ls, name) ==
    CHOOSE i \in 1..Len(ls) :
        /\ HeaderLine(ls[i]) /\ BlockName(Words(ls[i])) = name
        /\ \A j \in (i + 1)..Len(ls) :
              HeaderLine(ls[j]) => BlockName(Words(ls[j])) # name

\* the index of the last line of the block that starts at line i
BlockEnd(ls, i) ==
    CHOOSE e \in i..Len(ls) :
        /\ \A j \in (i + 1)..e : ~HeaderLine(ls[j])
        /\ e = Len(ls) \/ HeaderLine(ls[e + 1])

\* the text of the last block named name, alone
LastBlock(ls, name) ==
    JoinWith(SubSeq(ls, LastHeader(ls, name),
                    BlockEnd(ls, LastHeader(ls, name))), <<NL>>)

\* C13: when several blocks of the input have the same name, the parse
\* succeeds and hosts[name] is the Authenticator that the textually last
\* of these blocks gives when parsed alone: fields set in an earlier
\* block only are not carried over.
C13_LastBlockWins ==
    LET ls == LinesOf(input) IN
    (Parsed /\ BlocksOnly)
    => /\ result.kind = "Ok"
       /\ DOMAIN hosts = NamesOf(ls)
       /\ \A name \in NamesOf(ls) :
             LET alone == from_str(LastBlock(ls, name))
             IN  /\ alone.result.kind = "Ok"
                 /\ hosts[name] = alone.hosts[name]

\* C13 witness: two blocks named h, the first one sets the login, the
\* last one the account only, and the entry has no login
C13_Witness ==
    LET ls == LinesOf(input) IN
    /\ Parsed /\ BlocksOnly /\ result.kind = "Ok"
    /\ Len(ls) = 3
    /\ HeaderLine(ls[1]) /\ HeaderLine(ls[2]) /\ ~HeaderLine(ls[3])
    /\ BlockName(Words(ls[1])) = <<"h">>
    /\ BlockName(Words(ls[2])) = <<"h">>
    /\ from_str(ls[1]).hosts[<<"h">>].login = <<"x">>
    /\ hosts[<<"h">>] = [login |-> <<>>, account |-> <<"z">>,
                         password |-> <<>>]

-----------------------------------------------------------------------------
RECURSIVE ClosingQuote(_, _)
\* the index of the first double quote of s from index i on that is not
\* escaped by a backslash; Len(s) + 1 when there is none
ClosingQuote(s, i) ==
    IF i > Len(s) THEN Len(s) + 1
    ELSE IF s[i] = QUOTE THEN i
    ELSE IF s[i] = BSLASH THEN ClosingQuote(s, i + 2)
    ELSE ClosingQuote(s, i + 1)

\* the characters of s with their escapes resolved
Unescaped(s) == [i \in 1..Len(Units(s)) |-> Units(s)[i].c]

\* get_token was called with nothing queued on a text whose first
\* character after the leading whitespace is a double quote
QuotedCall ==
    /\ call.op = "get_token" /\ call.before.pushback = <<>>
    /\ LeadingWs(call.before.instream) < Len(call.before.instream)
    /\ call.before.instream[LeadingWs(call.before.instream) + 1] = QUOTE

\* C14: a token that starts with a double quote is made of exactly the
\* characters up to the next unescaped double quote, whitespace and
\* newlines included, without the two quotes; the token ends at the
\* closing quote whatever follows it, and the cursor is right after it;
\* when the input ends before a closing quote the token is what was
\* accumulated and the input is consumed.
C14_QuotedToken ==
    QuotedCall
    => LET s == call.before.instream
           p == LeadingWs(s) + 1
           q == ClosingQuote(s, p + 1)
       IN  /\ call.ret = Unescaped(SubSeq(s, p + 1, q - 1))
           /\ instream = SubSeq(s, q + 1, Len(s))
           /\ pushback = <<>>

\* C14 witness: get_token has returned a quoted token that holds a
\* newline, and the cursor is on the letter that follows the closing quote
C14_Witness ==
    /\ QuotedCall
    /\ call.before.instream = <<QUOTE, NL, QUOTE, "a">>
    /\ call.ret = <<NL>>
    /\ instream = <<"a">>

\* C14 second case reached: an unterminated quoted token
C14_Unterminated ==
    /\ QuotedCall
    /\ call.before.instream = <<QUOTE, "a", SP>>
    /\ call.ret = <<"a", SP>>
    /\ instream = <<>>

-----------------------------------------------------------------------------
RECURSIVE PlainEnd(_, _)
\* the index of the first whitespace character of s from index i on that
\* is not escaped by a backslash; Len(s) + 1 when there is none
PlainEnd(s, i) ==
    IF i > Len(s) THEN Len(s) + 1
    ELSE IF s[i] \in Whitespace THEN i
    ELSE IF s[i] = BSLASH THEN PlainEnd(s, i + 2)
    ELSE PlainEnd(s, i + 1)

\* the text of s that follows its first token: what follows the closing
\* quote of a quoted token, and what follows the whitespace character that
\* ends an unquoted one
AfterToken(s) ==
    LET p == LeadingWs(s) + 1
    IN  IF p > Len(s) THEN <<>>
        ELSE IF s[p] = QUOTE
        THEN SubSeq(s, ClosingQuote(s, p + 1) + 1, Len(s))
        ELSE SubSeq(s, PlainEnd(s, p) + 1, Len(s))

\* the input starts with the keyword macdef
MacdefFirst ==
    LET a == LeadingWs(input)
    IN  /\ Len(input) >= a + Len(kMacdef)
        /\ SubSeq(input, a + 1, a + Len(kMacdef)) = kMacdef
        /\ \/ Len(input) = a + Len(kMacdef)
           \/ input[a + Len(kMacdef) + 1] \in Whitespace

\* the text of the input that follows that keyword and the whitespace
\* character that ends it
AfterKeyword ==
    SubSeq(input, LeadingWs(input) + Len(kMacdef) + 2, Len(input))

\* the macro line loop ends the first declaration of an input that starts
\* with macdef
FirstDeclarationEnds ==
    /\ MacdefFirst
    /\ pc = "macdef" /\ pc' = "top"
    /\ DOMAIN macros = {} /\ DOMAIN hosts = {}

\* the outer loop has read macdef and reads the name
EntersMacro == pc = "top" /\ pc' = "macdef"

\* the text the name of a macro is scanned from, macdef being the next
\* token: queued by the attribute loop, or the next token of the text
NameText ==
    IF pushback # <<>> THEN instream
    ELSE get_token(LexOf(State)).lex.instream

\* C6 as amended: for every 'macdef <name>' of a file, the lines of the
\* macro are those of the text that follows the name token: after the
\* whitespace character that ends an unquoted name, and right after the
\* closing quote of a quoted name.  The rest of the macdef line is thus
\* the first of them: an unquoted name followed by a blank and a newline,
\* and a quoted name followed by the newline, give an empty macro, and an
\* unquoted name directly followed by the newline gives the lines after
\* the macdef line.  The lines are taken up to the first line that is
\* empty after trimming (or the end of the input), trimmed and in order,
\* and parsing resumes at top level with the text after that line.
\* Stated for the first declaration of the input as a whole, and for
\* every declaration step by step: the loop starts on the text after the
\* name with no line, every line read keeps the lines read followed by
\* the lines to come, and the end stores them under the name.
C6_MacroIsLinesAfterName ==
    [][/\ FirstDeclarationEnds
          => LET name == TokenOf(AfterKeyword)
                 body == MacroBody(AfterToken(AfterKeyword), <<>>)
             IN  /\ name \in DOMAIN macros'
                 /\ macros'[name] = body.lines
                 /\ instream' = body.rest
       /\ EntersMacro
          => /\ entryname' = TokenOf(NameText)
             /\ instream' = AfterToken(NameText)
             /\ v' = <<>> /\ pushback' = <<>>
             /\ macros' = macros /\ hosts' = hosts
       /\ pc = "macdef"
          => LET body == MacroBody(instream, v)
             IN  IF pc' = "macdef"
                 THEN /\ entryname' = entryname
                      /\ macros' = macros /\ hosts' = hosts
                      /\ MacroBody(instream', v') = body
                 ELSE /\ pc' = "top"
                      /\ entryname \in DOMAIN macros'
                      /\ macros'[entryname] = body.lines
                      /\ \A m \in DOMAIN macros' \ {entryname} :
                            m \in DOMAIN macros /\ macros'[m] = macros[m]
                      /\ hosts' = hosts
                      /\ instream' = body.rest
                      /\ pushback' = <<>>]_vars

\* C6 witness: a quoted name followed by the newline has given an empty
\* macro, and the declaration on the next line a macro of two lines, one
\* trimmed of its blanks and one of its tab
C6_Witness ==
    /\ input = JoinWith(<<kMacdef \o <<SP, QUOTE, "n", QUOTE>>,
                          JoinWith(<<kMacdef, <<"m">>>>, <<SP>>),
                          <<SP, "x", SP>>, <<TAB, "y">>>>, <<NL>>)
    /\ pc = "done" /\ rep = <<>> /\ request = <<>>
    /\ result.kind = "Ok"
    /\ DOMAIN macros = {<<"n">>, <<"m">>}
    /\ macros[<<"n">>] = <<>>
    /\ macros[<<"m">>] = << <<"x">>, <<"y">> >>

\* C6, other cases reached: text after the name is the first line of the
\* macro, and a name on the line after the keyword
C6_RestOfLine ==
    /\ input = JoinWith(<<JoinWith(<<kMacdef, <<"m">>, <<"x">>>>, <<SP>>),
                          <<TAB, "y">>>>, <<NL>>)
    /\ pc = "done" /\ macros = (<<"m">> :> << <<"x">>, <<"y">> >>)

C6_NameOnNextLine ==
    /\ input = JoinWith(<<kMacdef, <<"x">>, <<TAB, "y">>>>, <<NL>>)
    /\ pc = "done" /\ macros = (<<"x">> :> << <<"y">> >>)

-----------------------------------------------------------------------------
\* the entry the lookup rule names for host h: hosts[h] when it exists,
\* otherwise hosts["default"] when it exists, as <<entry>>, or <<>>
EntryFor(h) ==
    IF h \in DOMAIN hosts THEN <<hosts[h]>>
    ELSE IF kDefault \in DOMAIN hosts THEN <<hosts[kDefault]>>
    ELSE <<>>

\* the request returned carries the credentials of entry e, and is the
\* request given otherwise
AuthFrom(e) ==
    /\ request[1].returned.auth =
          <<[login |-> e.login,
             password |-> IF e.password # <<>> THEN <<e.password>>
                          ELSE <<>>]>>
    /\ [request[1].returned EXCEPT !.auth = <<>>] = request[1].given

\* what the lookup rule gives for the request handled
LookupRuleApplied ==
    LET h == request[1].given.host[1] IN
    IF EntryFor(h) # <<>> THEN AuthFrom(EntryFor(h)[1])
    ELSE request[1].returned = request[1].given

\* C15: in NetrcMiddleware::init, for a request to host h the entry used
\* is hosts[h] when it exists, otherwise hosts["default"] when it exists;
\* with an entry the request gets basic auth (login, password) when the
\* password is not empty and (login, none) when it is; with neither entry
\* the request is returned unmodified.
C15_LookupForEveryRequest ==
    (request # <<>> /\ request[1].given.host # <<>>) => LookupRuleApplied

\* C15 as amended: the rule holds for a request to host h that can be
\* cloned and built; a request that cannot be cloned (try_clone gives
\* None) or that fails to build is returned unmodified, whatever the
\* entries are.
C15_LookupForClonedRequest ==
    (request # <<>> /\ request[1].given.host # <<>>)
    => IF request[1].given.cloneable /\ request[1].given.builds
       THEN LookupRuleApplied
       ELSE request[1].returned = request[1].given

\* C15 witness: hosts holds a different login for h and for default, and a
\* request to h that can be cloned and built got the login of h
C15_Witness ==
    /\ request # <<>>
    /\ request[1].given.host = <<<<"h">>>>
    /\ request[1].given.cloneable /\ request[1].given.builds
    /\ <<"h">> \in DOMAIN hosts /\ kDefault \in DOMAIN hosts
    /\ hosts[<<"h">>].login # hosts[kDefault].login
    /\ request[1].returned.auth # <<>>
    /\ request[1].returned.auth[1].login = hosts[<<"h">>].login

\* C15 cases reached: the password of the entry is sent; the default entry
\* is used for a host that has no entry
C15_PasswordSent ==
    /\ request # <<>>
    /\ request[1].returned.auth # <<>>
    /\ request[1].returned.auth[1].password = <<<<"x">>>>

C15_DefaultUsed ==
    /\ request # <<>>
    /\ request[1].given.host = <<<<"g">>>>
    /\ request[1].returned.auth # <<>>
    /\ request[1].returned.auth[1].login = <<"x">>

-----------------------------------------------------------------------------
\* C16: in the attribute loop a token that begins with '#' is handled by
\* the rule of the top level: the rest of the line is discarded only when
\* the token is the single character '#' and no newline was read with it;
\* after a longer token that begins with '#' the tokens that follow it on
\* the line are not discarded.  In both cases the entry is unchanged and
\* the loop goes on.
C16_AttrCommentRule ==
    [][(pc = "attr" /\ IsComment(NextToken))
       => LET g == get_token(LexOf(State))
          IN  /\ instream' = IF Len(g.tok) = 1 /\ g.lex.lineno = lineno
                             THEN read_line(g.lex).lex.instream
                             ELSE g.lex.instream
              /\ pc' = "attr" /\ auth' = auth /\ hosts' = hosts]_vars

-----------------------------------------------------------------------------
\* the outer loop is about to scan a token that begins with '#' and is
\* longer than one character
LongHashAhead ==
    /\ pc = "top" /\ pushback = <<>>
    /\ IsComment(NextToken) /\ Len(NextToken) > 1
    /\ PlainWord(NextToken)

\* C17: at top level a token that begins with '#' and is longer than one
\* character is skipped alone: no line is read after it, the cursor is
\* right after the whitespace character that ends the token, so that the
\* tokens that follow it on the line are the next top-level tokens, and
\* hosts, macros and the result are unchanged.
C17_LongHashSkippedAlone ==
    [][LongHashAhead
       => /\ instream' = SubSeq(input, NextTokenStart + Len(NextToken) + 1,
                                Len(input))
          /\ pushback' = <<>>
          /\ pc' = "top"
          /\ hosts' = hosts /\ macros' = macros
          /\ result' = result]_vars

\* C17 witness: the input starts with '#c default', and the default block
\* that follows '#c' on the line was parsed and stored
C17_Witness ==
    /\ StartsWith(input, <<HASH, "c", SP>> \o kDefault)
    /\ pc = "done" /\ result.kind = "Ok"
    /\ kDefault \in DOMAIN hosts

-----------------------------------------------------------------------------
\* line l is 'macdef <name>'
MacdefLine(l) ==
    LET w == Words(l) IN Len(w) = 2 /\ w[1] = kMacdef /\ PlainWord(w[2])

\* the input is made of lines that start a block, continue one, or
\* declare a macro
DeclarationsOnly ==
    \A i \in 1..Len(LinesOf(input)) :
        LET l == LinesOf(input)[i]
        IN  HeaderLine(l) \/ PairsLine(l) \/ MacdefLine(l)

RECURSIVE DeclsFrom(_, _, _, _)
\* the names of the blocks and of the macros declared by lines i.. of ls;
\* inMacro tells that line i is in the body of a macro, which a line that
\* is empty after trimming ends; after a macdef line the body starts with
\* what follows the whitespace character that ends the name
DeclsFrom(ls, i, inMacro, acc) ==
    IF i > Len(ls) THEN acc
    ELSE IF inMacro
    THEN DeclsFrom(ls, i + 1, trim(ls[i]) # <<>>, acc)
    ELSE IF MacdefLine(ls[i])
    THEN DeclsFrom(ls, i + 1, ls[i][Len(ls[i])] \notin Whitespace,
                   [acc EXCEPT !.macros = @ \cup {Words(ls[i])[2]}])
    ELSE IF HeaderLine(ls[i])
    THEN DeclsFrom(ls, i + 1, FALSE,
                   [acc EXCEPT !.hosts = @ \cup {BlockName(Words(ls[i]))}])
    ELSE DeclsFrom(ls, i + 1, FALSE, acc)

Declared == DeclsFrom(LinesOf(input), 1, FALSE, [hosts |-> {}, macros |-> {}])

\* every declaration of a parsed sequence of blocks and macros is stored
AllDeclarationsStored ==
    (Parsed /\ result.kind = "Ok" /\ DeclarationsOnly)
    => /\ DOMAIN hosts = Declared.hosts
       /\ DOMAIN macros = Declared.macros

\* C18: when the attribute loop reads an empty token or one of machine,
\* default, macdef, the current entry is inserted in hosts and that token
\* is queued; the next iteration of the outer loop processes exactly that
\* token and the queue is empty again: no token is lost or processed
\* twice at the boundary of a block, so that in a successfully parsed
\* sequence of blocks every machine or default block has its hosts entry
\* and every macdef its macros entry.
C18_BoundaryTokenReprocessed ==
    [][/\ (pc = "attr" /\ NextToken \in {<<>>} \cup ToplevelKeywords)
          => /\ hosts' = [n \in DOMAIN hosts \cup {entryname} |->
                             IF n = entryname THEN auth ELSE hosts[n]]
             /\ pc' = "top"
             /\ pushback' = <<NextToken>>
             /\ result' = result
       /\ (pc = "top" /\ pushback # <<>>)
          => /\ Len(pushback) = 1
             /\ NextToken = pushback[1]
             /\ pushback' = <<>>
             /\ pushback[1] = <<>>
                   => pc' = "done" /\ result'.kind = "Ok"
                      /\ instream' = instream
             /\ pushback[1] = kDefault
                   => pc' = "attr" /\ entryname' = kDefault
                      /\ instream' = instream
             /\ pushback[1] = kMacdef
                   => pc' = "macdef" /\ entryname' = TokenOf(instream)
             /\ pushback[1] = kMachine
                   => \/ pc' = "attr" /\ entryname' = TokenOf(instream)
                      \/ TokenOf(instream) = <<>> /\ result'.kind = "Err"
       /\ AllDeclarationsStored]_vars

\* C18 witness: a machine block, a macro and a default block, each met
\* at the end of the one before, are all stored
C18_Witness ==
    /\ Parsed /\ result.kind = "Ok" /\ DeclarationsOnly
    /\ DOMAIN hosts = {<<"h">>, kDefault}
    /\ DOMAIN macros = {<<"n">>}
    /\ HeaderLine(LinesOf(input)[1])
    /\ MacdefLine(LinesOf(input)[2])

-----------------------------------------------------------------------------
\* C19: with tokens queued, get_token returns the oldest one, removes that
\* one only and leaves the cursor and lineno as they are; push_token adds
\* its token behind those already queued and touches nothing else: the
\* tokens of several push_token calls come back in the order they were
\* pushed, before anything is scanned.
C19_PushbackFirstInFirstOut ==
    /\ (call.op = "get_token" /\ call.before.pushback # <<>>)
       => /\ call.ret = call.before.pushback[1]
          /\ pushback = Tail(call.before.pushback)
          /\ instream = call.before.instream
          /\ lineno = call.before.lineno
    /\ call.op = "push_token"
       => /\ pushback = call.before.pushback \o <<call.ret>>
          /\ instream = call.before.instream
          /\ lineno = call.before.lineno

\* C19 witness: 'machine' and then the empty token were pushed; get_token
\* has returned 'machine', the empty token is still queued and the text,
\* which starts with a newline, has not been touched
C19_Witness ==
    /\ call.op = "get_token"
    /\ call.before.pushback = <<kMachine, <<>>>>
    /\ call.ret = kMachine
    /\ pushback = <<<<>>>>
    /\ instream = input /\ Len(input) = MaxChars /\ input[1] = NL
    /\ lineno = 1

-----------------------------------------------------------------------------
\* C20: in every state of from_str the pushback queue holds at most one
\* token, and it is empty whenever the attribute loop reads a token or a
\* value: a token is queued only between the end of a block and the next
\* iteration of the outer loop, and it is the token that ended the block.
C20_PushbackAtMostOne ==
    /\ Len(pushback) <= 1
    /\ pc = "attr" => pushback = <<>>
    /\ (pc = "attr" /\ NextToken \in AttrKeys)
       => get_token(LexOf(State)).lex.pushback = <<>>
    /\ pushback # <<>>
       => pc = "top" /\ pushback[1] \in {<<>>} \cup ToplevelKeywords

\* C20 witness: a block has ended on 'macdef', which is queued for the
\* outer loop
C20_Witness ==
    /\ pc = "top" /\ pushback = <<kMacdef>>
    /\ DOMAIN hosts # {}

-----------------------------------------------------------------------------
\* C21: after any sequence of read_char, read_line, get_token and
\* push_token calls on a Lex, lineno is 1 plus the number of newline
\* characters consumed from the input so far.
C21_LinenoCountsNewlines ==
    lineno = 1 + NewlinesBefore(Consumed)

-----------------------------------------------------------------------------
RECURSIVE TotalLen(_)
\* the number of characters of the tokens of queue q
TotalLen(q) == IF q = <<>> THEN 0 ELSE Len(Head(q)) + TotalLen(Tail(q))

\* what from_str still has to do: the characters left in the input count
\* most, then the characters of the queued token, then the loop it is in
Remaining ==
    10 * Len(instream) + 2 * TotalLen(pushback)
       + (CASE pc = "done" -> 0
            [] pc = "top" -> 1
            [] OTHER -> 2)

\* C22: from_str terminates on every input, with Ok or Err: every
\* iteration of the outer loop, of the attribute loop and of the macro
\* line loop consumes at least one character of the input, or consumes
\* the queued token, or leaves its loop, in such a way that what remains
\* to be done, which is finite, gets smaller at every iteration; and the
\* parse has ended exactly when it has a result.
C22_Terminates ==
    [][pc # "done"
       => /\ \/ Len(instream') < Len(instream)
             \/ pushback # <<>> /\ pushback' = Tail(pushback)
             \/ pc' # pc
          /\ Remaining' < Remaining
          /\ Remaining' >= 0
          /\ (pc' = "done") = (result'.kind \in {"Ok", "Err"})]_vars

\* C22 witness: the parse has ended after iterations of the three loops:
\* an entry and a macro with a line are stored, and nothing remains
C22_Witness ==
    /\ pc = "done" /\ result.kind \in {"Ok", "Err"}
    /\ DOMAIN hosts # {}
    /\ \E m \in DOMAIN macros : macros[m] # <<>>
    /\ Remaining = 0

-----------------------------------------------------------------------------
\* C23: whenever from_str returns Ok the whole input has been consumed:
\* the outer loop ends only when no token remains in the input, so that
\* no machine, default or macdef block is skipped without an error.
C23_OkConsumesInput ==
    (pc = "done" /\ result.kind = "Ok")
    => /\ pushback = <<>>
       /\ \A i \in 1..Len(instream) : instream[i] \in Whitespace

-----------------------------------------------------------------------------
RECURSIVE EscUnits(_)
\* the characters of s with their escapes resolved, each with the facts
\* that it was escaped and that it stands in s: the blank that a
\* backslash at the end of s gives does not
EscUnits(s) ==
    IF s = <<>> THEN <<>>
    ELSE IF Head(s) = BSLASH
         THEN IF Len(s) = 1
              THEN <<[c |-> SP, esc |-> TRUE, inInput |-> FALSE]>>
              ELSE <<[c |-> s[2], esc |-> TRUE, inInput |-> TRUE]>>
                       \o EscUnits(SubSeq(s, 3, Len(s)))
         ELSE <<[c |-> Head(s), esc |-> FALSE, inInput |-> TRUE]>>
                  \o EscUnits(Tail(s))

\* get_token was called with nothing queued
ScanCall == call.op = "get_token" /\ call.before.pushback = <<>>

\* the text the call scanned, from its first character that is not
\* whitespace
Scanned ==
    SubSeq(call.before.instream, LeadingWs(call.before.instream) + 1,
           Len(call.before.instream))

\* the token returned is empty only at the end of the input or for a
\* quoted string without content
EmptyOnlyAtEndOrQuoted ==
    call.ret = <<>>
    => \/ Scanned = <<>>
       \/ Scanned[1] = QUOTE /\ (Len(Scanned) = 1 \/ Scanned[2] = QUOTE)

\* the text scanned does not start with a quote
UnquotedCall == ScanCall /\ Scanned # <<>> /\ Scanned[1] # QUOTE

\* the token returned is made of the first characters of the text
\* scanned, escapes resolved
TokenFromScanned ==
    /\ call.ret # <<>>
    /\ Len(call.ret) <= Len(EscUnits(Scanned))
    /\ \A i \in 1..Len(call.ret) : call.ret[i] = EscUnits(Scanned)[i].c

\* C24: with an empty queue get_token returns the empty string only when
\* the rest of the input is whitespace or the token scanned is a quoted
\* string without content; a token scanned in unquoted mode is not empty
\* and holds a space, tab, carriage return or newline only where that
\* character was escaped by a backslash in the input.
C24_WhitespaceOnlyEscapedInInput ==
    /\ ScanCall => EmptyOnlyAtEndOrQuoted
    /\ UnquotedCall
       => /\ TokenFromScanned
          /\ \A i \in 1..Len(call.ret) :
                call.ret[i] \in Whitespace
                => /\ EscUnits(Scanned)[i].esc
                   /\ EscUnits(Scanned)[i].inInput

\* C24 as amended: the whitespace characters of an unquoted token are
\* those that a backslash escaped in the input, and the space that a
\* backslash at the very end of the input stands for.
C24_WhitespaceOnlyEscaped ==
    /\ ScanCall => EmptyOnlyAtEndOrQuoted
    /\ UnquotedCall
       => /\ TokenFromScanned
          /\ \A i \in 1..Len(call.ret) :
                call.ret[i] \in Whitespace
                => \/ /\ EscUnits(Scanned)[i].esc
                      /\ EscUnits(Scanned)[i].inInput
                   \/ /\ ~EscUnits(Scanned)[i].inInput
                      /\ call.ret[i] = SP
                      /\ i = Len(call.ret)
                      /\ instream = <<>>
                      /\ Scanned[Len(Scanned)] = BSLASH

\* C24 witness: an unquoted token with an escaped newline, and whose last
\* character is the space of a backslash at the end of the input
C24_Witness ==
    /\ UnquotedCall
    /\ call.before.instream = <<BSLASH, NL, "a", BSLASH>>
    /\ call.ret = <<NL, "a", SP>>

\* C24 case reached: the empty token of a quoted string without content,
\* with text left after it
C24_QuotedEmptyToken ==
    /\ ScanCall /\ call.ret = <<>>
    /\ call.before.instream = <<SP, QUOTE, QUOTE, "a">>
    /\ instream = <<"a">>

====
